---- MODULE Spec2Model ----
(***************************************************************************)
(* The Shield: a sliding-window rate limiter with two engines.             *)
(*   memory.go      memoryLimiter: Allow, Close, cleanupWorker              *)
(*   redis_lua.go   redisLimiter:  Allow (slidingWindowLua), Close          *)
(* Time is the millisecond wall clock (time.Now().UnixMilli()).            *)
(***************************************************************************)
EXTENDS Integers, Sequences, FiniteSets, TLC

\* ---------------------------------------------------------------- bounds
MaxTime == 3
MaxCalls == 4
MaxLimit == 2
MaxWindow == 2
MaxFaults == 1

Ids == {"a", "b"}
Callers == {"g1", "g2"}
Procs == {"p1", "p2"}
NoOne == "none"
NoTTL == -1

VARIABLES
    engine,     \* which Limiter the program built: "memory", "redis" (main.go)
    cfg,        \* Config{Limit, Window}, Window in milliseconds
    clock,      \* time.Now().UnixMilli()
    store,      \* memoryLimiter.store: identifier -> sequence of timestamps
    mu,         \* memoryLimiter.mu: the goroutine holding it, or NoOne
    frame,      \* per calling goroutine: position in Allow and its locals
    wpc,        \* cleanupWorker goroutine: "spawned", "select", "tick", "exited"
    wg,         \* memoryLimiter.wg counter
    stopCh,     \* memoryLimiter.stopCh is closed
    cpc,        \* Close: "idle", "wait", "nil", "err", "panic"
    done,       \* Close's done channel is closed
    ctxDone,    \* Close's ctx is done
    zset,       \* remote store: identifier -> set of members (member = score)
    ttl,        \* remote store: identifier -> expiry instant of the key, or NoTTL
    rframe,     \* per process: position in redisLimiter.Allow and its locals
    calls,      \* history: per identifier, every returned Allow in order of return
    eqres,      \* differential run: per identifier, the pairs of engine results
    served      \* history: the requests Middleware has answered, in order

vars == <<engine, cfg, clock, store, mu, frame, wpc, wg, stopCh,
          cpc, done, ctxDone, zset, ttl, rframe, calls, eqres,
          served>>

memVars == <<store, mu, frame>>
workerVars == <<wpc, wg>>
closeVars == <<stopCh, cpc, done, ctxDone>>
redisVars == <<zset, ttl, rframe>>
histVars == <<calls, eqres, served>>

\* ------------------------------------------------------- helper functions
Last(s) == s[Len(s)]

Min(S) == CHOOSE x \in S : \A y \in S : x <= y

RECURSIVE SortedSeq(_)
SortedSeq(S) == IF S = {} THEN <<>> ELSE <<Min(S)>> \o SortedSeq(S \ {Min(S)})

IsAscending(s) == \A i \in 1..(Len(s) - 1) : s[i] <= s[i + 1]

\* ------------------------------------------------ memory engine: Allow
InWindowRelaxed(ts, boundary) == ts >= boundary
InWindow(ts, boundary) == ts > boundary

\* The index scan of Allow; the result is the 0-based validIdx.
RECURSIVE ScanFrom(_, _, _)
ScanFrom(timestamps, boundary, i) ==
    IF InWindow(timestamps[i], boundary) THEN i - 1
    ELSE IF i = Len(timestamps) THEN Len(timestamps)
    ELSE ScanFrom(timestamps, boundary, i + 1)

validIdxNoneExpired(timestamps, boundary) ==
    IF Len(timestamps) = 0 THEN 0
    ELSE LET v == ScanFrom(timestamps, boundary, 1)
         IN IF v = Len(timestamps) THEN 0 ELSE v
validIdx(timestamps, boundary) ==
    IF Len(timestamps) = 0 THEN 0 ELSE ScanFrom(timestamps, boundary, 1)

Slide(timestamps, boundary) ==
    LET v == validIdx(timestamps, boundary) IN
    IF v > 0
    THEN IF v >= Len(timestamps) THEN <<>>
         ELSE SubSeq(timestamps, v + 1, Len(timestamps))
    ELSE timestamps

UnderLimitOffByOne(n, limit) == n <= limit
UnderLimit(n, limit) == n < limit

RemainingBeforeAppend(limit, n) == limit - n + 1
\* remaining := m.cfg.Limit - len(timestamps), taken after the append
Remaining(limit, n) == limit - n

PushFront(timestamps, now) == <<now>> \o timestamps
\* timestamps = append(timestamps, now)
Push(timestamps, now) == Append(timestamps, now)

BlockedAppending(kept, now) ==
    [ts |-> Append(kept, now), allowed |-> FALSE, remaining |-> 0]
\* The blocked branch: the slid sequence is stored, return false, 0, nil.
Blocked(kept, now) == [ts |-> kept, allowed |-> FALSE, remaining |-> 0]

\* The decision of Allow on the fetched sequence: the sequence to store and the result.
MemDecide(timestamps, now, c) ==
    LET kept == Slide(timestamps, now - c.Window) IN
    IF UnderLimit(Len(kept), c.Limit)
    THEN [ts |-> Push(kept, now), allowed |-> TRUE,
          remaining |-> Remaining(c.Limit, Len(kept) + 1)]
    ELSE Blocked(kept, now)

MutexFreeUnguarded(m) == TRUE
MutexFree(m) == m = NoOne

\* m.store[identifier] with the "exists" flag folded in: absent reads as empty.
Fetch(m, id) == IF id \in DOMAIN m THEN m[id] ELSE <<>>

PutReset(m, id, timestamps) == [k \in {id} |-> timestamps]
\* m.store[identifier] = timestamps
Put(m, id, timestamps) ==
    [k \in DOMAIN m \cup {id} |-> IF k = id THEN timestamps ELSE m[k]]

Idle == [pc |-> "idle", id |-> "", now |-> 0, timestamps |-> <<>>]

RECURSIVE SumLen(_, _)
SumLen(h, S) ==
    IF S = {} THEN 0
    ELSE LET id == CHOOSE x \in S : TRUE IN Len(h[id]) + SumLen(h, S \ {id})

\* The number of Allow calls that have returned.
Returned == SumLen(calls, Ids)

\* history: one more returned call for the identifier
Record(h, id, entry) == [h EXCEPT ![id] = Append(h[id], entry)]

InFlight == Cardinality({g \in Callers : frame[g].pc # "idle"})
           + Cardinality({p \in Procs : rframe[p].pc # "idle"})

\* A panic in any goroutine ends the process.
Crashed == cpc = "panic" \/ wpc = "panic"

\* Allow, first half: take the lock, read the clock, fetch the sequence.
AllowEnter(g, id) ==
    /\ engine = "memory"
    /\ ~Crashed
    /\ frame[g].pc = "idle"
    /\ Returned + InFlight < MaxCalls
    /\ MutexFree(mu)
    /\ mu' = g
    /\ frame' = [frame EXCEPT ![g] =
                    [pc |-> "locked", id |-> id, now |-> clock, timestamps |-> Fetch(store, id)]]
    /\ UNCHANGED <<engine, cfg, clock, store, workerVars, closeVars, redisVars, histVars>>

\* Allow, second half: prune, decide, store, unlock (deferred), return.
AllowReturn(g) ==
    /\ engine = "memory"
    /\ ~Crashed
    /\ frame[g].pc = "locked"
    /\ LET f == frame[g]
           r == MemDecide(f.timestamps, f.now, cfg)
       IN /\ store' = Put(store, f.id, r.ts)
          /\ calls' = Record(calls, f.id,
                 [now |-> f.now, allowed |-> r.allowed,
                  remaining |-> r.remaining, err |-> FALSE,
                  pre |-> Fetch(store, f.id), post |-> r.ts])
    /\ mu' = NoOne
    /\ frame' = [frame EXCEPT ![g] = Idle]
    /\ UNCHANGED <<engine, cfg, clock, workerVars, closeVars, redisVars, eqres, served>>

\* ------------------------------------------- memory engine: cleanupWorker
\* The goroutine starts: wg.Add(1), then the ticker is created. time.NewTicker
\* panics on a non-positive period; the deferred wg.Done() runs as the panic unwinds.
cleanupWorkerStart ==
    /\ engine = "memory"
    /\ ~Crashed
    /\ wpc = "spawned"
    /\ IF cfg.Window * 2 > 0
       THEN wpc' = "select" /\ wg' = wg + 1
       ELSE wpc' = "panic" /\ wg' = wg
    /\ UNCHANGED <<engine, cfg, clock, memVars, closeVars, redisVars, histVars>>

\* select: case <-ticker.C. When the ticker (period 2 * Window) has a tick ready
\* for the goroutine is left to the runtime: a tick may be taken at any instant.
cleanupWorkerRecvTick ==
    /\ engine = "memory"
    /\ ~Crashed
    /\ wpc = "select"
    /\ wpc' = "tick"
    /\ UNCHANGED <<engine, cfg, clock, memVars, wg, closeVars, redisVars, histVars>>

Stale(timestamps, boundary) ==
    Len(timestamps) = 0 \/ timestamps[Len(timestamps)] < boundary

ReclaimOne(m, now, c) ==
    LET stale == {id \in DOMAIN m : Stale(m[id], now - c.Window)}
        gone == IF stale = {} THEN {} ELSE {CHOOSE id \in stale : TRUE}
    IN [id \in DOMAIN m \ gone |-> m[id]]
ReclaimNoWindow(m, now, c) ==
    LET keep == {id \in DOMAIN m : ~Stale(m[id], now)}
    IN [id \in keep |-> m[id]]
\* The map after one pass of the range loop with deletes.
Reclaim(m, now, c) ==
    LET keep == {id \in DOMAIN m : ~Stale(m[id], now - c.Window)}
    IN [id \in keep |-> m[id]]

\* The tick branch: lock, delete the stale identifiers, unlock.
cleanupWorkerPass ==
    /\ engine = "memory"
    /\ ~Crashed
    /\ wpc = "tick"
    /\ MutexFree(mu)
    /\ store' = Reclaim(store, clock, cfg)
    /\ wpc' = "select"
    /\ UNCHANGED <<engine, cfg, clock, mu, frame, wg, closeVars,
                   redisVars, histVars>>

StopIgnored(ch) == FALSE
\* case <-m.stopCh is ready: a receive from a closed channel never blocks.
StopSignalled(ch) == ch

\* select: case <-m.stopCh; the deferred ticker.Stop() and wg.Done() run.
cleanupWorkerStop ==
    /\ engine = "memory"
    /\ ~Crashed
    /\ wpc = "select"
    /\ StopSignalled(stopCh)
    /\ wpc' = "exited"
    /\ wg' = wg - 1
    /\ UNCHANGED <<engine, cfg, clock, memVars, closeVars, redisVars, histVars>>

\* ----------------------------------------------------------------- clock
Tick ==
    /\ ~Crashed
    /\ clock < MaxTime
    /\ clock' = clock + 1
    /\ UNCHANGED <<engine, cfg, memVars, workerVars, closeVars, redisVars, histVars>>

\* ------------------------------------------------- memory engine: Close
\* close(m.stopCh), make(done), go func() { m.wg.Wait(); close(done) }().
\* Closing an already closed channel panics, and the panic ends the process.
CloseBegin ==
    /\ engine = "memory"
    /\ cpc \in {"idle", "nil", "err"}
    /\ IF stopCh
       THEN /\ cpc' = "panic"
            /\ UNCHANGED <<stopCh, done, ctxDone>>
       ELSE /\ cpc' = "wait"
            /\ stopCh' = TRUE
            /\ UNCHANGED <<done, ctxDone>>
    /\ UNCHANGED <<engine, cfg, clock, memVars, workerVars, redisVars, histVars>>

WaitReturnsEager(n) == TRUE
WaitReturns(n) == n = 0

\* The goroutine of Close: m.wg.Wait() returns, close(done).
CloseWaiter ==
    /\ engine = "memory"
    /\ ~Crashed
    /\ stopCh
    /\ ~done
    /\ WaitReturns(wg)
    /\ done' = TRUE
    /\ UNCHANGED <<engine, cfg, clock, memVars, workerVars, stopCh, cpc, ctxDone,
                   redisVars, histVars>>

\* The caller's deadline passes while Close waits.
CtxDone ==
    /\ engine = "memory"
    /\ cpc = "wait"
    /\ ~ctxDone
    /\ ctxDone' = TRUE
    /\ UNCHANGED <<engine, cfg, clock, memVars, workerVars, stopCh, cpc, done,
                   redisVars, histVars>>

\* select: case <-done: return nil
CloseReturnNil ==
    /\ engine = "memory"
    /\ cpc = "wait"
    /\ done
    /\ cpc' = "nil"
    /\ UNCHANGED <<engine, cfg, clock, memVars, workerVars, stopCh, done, ctxDone,
                   redisVars, histVars>>

\* select: case <-ctx.Done(): return ctx.Err()
CloseReturnErr ==
    /\ engine = "memory"
    /\ cpc = "wait"
    /\ ctxDone
    /\ cpc' = "err"
    /\ UNCHANGED <<engine, cfg, clock, memVars, workerVars, stopCh, done, ctxDone,
                   redisVars, histVars>>

\* ------------------------------------- distributed engine: slidingWindowLua
\* What a command sees of a key: nothing once its expiry instant has passed.
Live(members, expiry, serverNow) ==
    IF expiry # NoTTL /\ serverNow > expiry THEN {} ELSE members

ZRemRangeByScoreExclusive(members, lo, hi) == {m \in members : ~(lo <= m /\ m < hi)}
\* ZREMRANGEBYSCORE key lo hi: the members left.
ZRemRangeByScore(members, lo, hi) == {m \in members : ~(lo <= m /\ m <= hi)}

ZAddDistinct(members, score, member) == members \cup {<<score, member>>}
\* ZADD key score member, where the script passes now for both: a member already
\* present is only re-scored, so the collection is a set of timestamps.
ZAdd(members, score, member) == members \cup {member}

\* PEXPIRE key window: the members left. A non-positive time to live deletes the key.
PExpire(members, window) == IF window > 0 THEN members ELSE {}

\* The script on the members it sees: the members left, the reply, and whether
\* PEXPIRE ran.
slidingWindowLua(members, now, window, limit) ==
    LET clear_before == now - window
        kept == ZRemRangeByScore(members, 0, clear_before)
        current_count == Cardinality(kept)
    IN IF current_count < limit
       THEN [members |-> PExpire(ZAdd(kept, now, now), window), allowed |-> 1,
             remaining |-> limit - current_count - 1, pexpire |-> TRUE]
       ELSE [members |-> kept, allowed |-> 0, remaining |-> 0, pexpire |-> FALSE]

\* The expiry of the key after the script: PEXPIRE counts from the server's clock,
\* and a key emptied by the prune is deleted together with its expiry.
ExpiryAfter(r, expiry, serverNow, window) ==
    IF r.pexpire THEN (IF window > 0 THEN serverNow + window ELSE NoTTL)
    ELSE IF r.members = {} THEN NoTTL
    ELSE expiry

RECURSIVE SumErr(_, _)
SumErr(h, S) ==
    IF S = {} THEN 0
    ELSE LET id == CHOOSE x \in S : TRUE
         IN Cardinality({i \in 1..Len(h[id]) : h[id][i].err}) + SumErr(h, S \ {id})

\* The number of Allow calls that have returned an error.
Faults == SumErr(calls, Ids)

RIdle == [pc |-> "idle", id |-> "", now |-> 0]

\* redisLimiter.Allow up to the script call: now and windowMs are read.
RedisAllowBegin(p, id) ==
    /\ engine = "redis"
    /\ rframe[p].pc = "idle"
    /\ Returned + InFlight < MaxCalls
    /\ rframe' = [rframe EXCEPT ![p] = [pc |-> "called", id |-> id, now |-> clock]]
    /\ UNCHANGED <<engine, cfg, clock, memVars, workerVars, closeVars, zset, ttl,
                   histVars>>

\* The script runs atomically in the store and its reply is translated.
RedisAllowReturn(p) ==
    /\ engine = "redis"
    /\ rframe[p].pc = "called"
    /\ LET f == rframe[p]
           seen == Live(zset[f.id], ttl[f.id], clock)
           r == slidingWindowLua(seen, f.now, cfg.Window, cfg.Limit)
       IN /\ zset' = [zset EXCEPT ![f.id] = r.members]
          /\ ttl' = [ttl EXCEPT ![f.id] = ExpiryAfter(r, IF seen = {} THEN NoTTL ELSE ttl[f.id],
                                                      clock, cfg.Window)]
          /\ calls' = Record(calls, f.id,
                 [now |-> f.now, allowed |-> (r.allowed = 1),
                  remaining |-> r.remaining, err |-> FALSE,
                  pre |-> SortedSeq(seen), post |-> SortedSeq(r.members)])
    /\ rframe' = [rframe EXCEPT ![p] = RIdle]
    /\ UNCHANGED <<engine, cfg, clock, memVars, workerVars, closeVars, eqres, served>>

\* script.Run fails before the store ran anything: return false, 0, err.
RedisAllowFail(p) ==
    /\ engine = "redis"
    /\ Faults < MaxFaults
    /\ rframe[p].pc = "called"
    /\ LET f == rframe[p]
           seen == Live(zset[f.id], ttl[f.id], clock)
       IN calls' = Record(calls, f.id,
                 [now |-> f.now, allowed |-> FALSE, remaining |-> 0, err |-> TRUE,
                  pre |-> SortedSeq(seen), post |-> SortedSeq(seen)])
    /\ rframe' = [rframe EXCEPT ![p] = RIdle]
    /\ UNCHANGED <<engine, cfg, clock, memVars, workerVars, closeVars, zset, ttl, eqres,
                   served>>

\* The store ran the script but ctx ended before the reply: return false, 0, err.
RedisAllowReplyLost(p) ==
    /\ engine = "redis"
    /\ Faults < MaxFaults
    /\ rframe[p].pc = "called"
    /\ LET f == rframe[p]
           seen == Live(zset[f.id], ttl[f.id], clock)
           r == slidingWindowLua(seen, f.now, cfg.Window, cfg.Limit)
       IN /\ zset' = [zset EXCEPT ![f.id] = r.members]
          /\ ttl' = [ttl EXCEPT ![f.id] = ExpiryAfter(r, IF seen = {} THEN NoTTL ELSE ttl[f.id],
                                                      clock, cfg.Window)]
          /\ calls' = Record(calls, f.id,
                 [now |-> f.now, allowed |-> FALSE, remaining |-> 0, err |-> TRUE,
                  pre |-> SortedSeq(seen), post |-> SortedSeq(r.members)])
    /\ rframe' = [rframe EXCEPT ![p] = RIdle]
    /\ UNCHANGED <<engine, cfg, clock, memVars, workerVars, closeVars, eqres, served>>

\* The store drops a key whose expiry instant has passed.
RedisExpire(id) ==
    /\ engine # "memory"
    /\ ttl[id] # NoTTL
    /\ clock > ttl[id]
    /\ zset' = [zset EXCEPT ![id] = {}]
    /\ ttl' = [ttl EXCEPT ![id] = NoTTL]
    /\ UNCHANGED <<engine, cfg, clock, memVars, workerVars, closeVars, rframe, histVars>>

\* ------------------------------------------------------------ Middleware
\* What keyFunc(r) can return: an identifier, or the empty string.
Keys == Ids \cup {""}

RespondFailClosed(allowed, remaining, err) ==
    IF err \/ ~allowed
    THEN [status |-> 429, next |-> FALSE, header |-> IF err THEN -1 ELSE remaining]
    ELSE [status |-> 0, next |-> TRUE, header |-> remaining]
\* The handler after limiter.Allow returned: the status it writes itself (0: none,
\* the response is left to next), whether next.ServeHTTP runs, and the value of
\* X-RateLimit-Remaining (-1: not set).
Respond(allowed, remaining, err) ==
    IF err THEN [status |-> 0, next |-> TRUE, header |-> -1]
    ELSE IF ~allowed THEN [status |-> 429, next |-> FALSE, header |-> remaining]
    ELSE [status |-> 0, next |-> TRUE, header |-> remaining]

\* history: one answered request
Answered(key, called, allowed, err, a) ==
    [key |-> key, called |-> called, allowed |-> allowed, err |-> err,
     status |-> a.status, next |-> a.next, header |-> a.header]

\* key == "": http.Error(w, "Bad Request", 400) and return; Allow is not called.
MiddlewareBadRequest(key) ==
    /\ engine \in {"memory", "redis"}
    /\ key = ""
    /\ Len(served) < MaxCalls
    /\ served' = Append(served,
           Answered(key, FALSE, FALSE, FALSE,
                    [status |-> 400, next |-> FALSE, header |-> -1]))
    /\ UNCHANGED <<engine, cfg, clock, memVars, workerVars, closeVars, redisVars,
                   calls, eqres>>

\* A request with a key, served by the memory engine: the whole of Allow runs under
\* the lock, then the handler answers.
MiddlewareMemory(key) ==
    /\ engine = "memory"
    /\ key # ""
    /\ Len(served) < MaxCalls
    /\ MutexFree(mu)
    /\ LET r == MemDecide(Fetch(store, key), clock, cfg)
       IN /\ store' = Put(store, key, r.ts)
          /\ calls' = Record(calls, key,
                 [now |-> clock, allowed |-> r.allowed,
                  remaining |-> r.remaining, err |-> FALSE,
                  pre |-> Fetch(store, key), post |-> r.ts])
          /\ served' = Append(served,
                 Answered(key, TRUE, r.allowed, FALSE,
                          Respond(r.allowed, r.remaining, FALSE)))
    /\ UNCHANGED <<engine, cfg, clock, mu, frame, workerVars, closeVars, redisVars,
                   eqres>>

\* A request with a key, served by the distributed engine: the script runs and its
\* reply arrives, then the handler answers.
MiddlewareRedis(key) ==
    /\ engine = "redis"
    /\ key # ""
    /\ Len(served) < MaxCalls
    /\ LET seen == Live(zset[key], ttl[key], clock)
           r == slidingWindowLua(seen, clock, cfg.Window, cfg.Limit)
       IN /\ zset' = [zset EXCEPT ![key] = r.members]
          /\ ttl' = [ttl EXCEPT ![key] =
                 ExpiryAfter(r, IF seen = {} THEN NoTTL ELSE ttl[key], clock, cfg.Window)]
          /\ calls' = Record(calls, key,
                 [now |-> clock, allowed |-> (r.allowed = 1),
                  remaining |-> r.remaining, err |-> FALSE,
                  pre |-> SortedSeq(seen), post |-> SortedSeq(r.members)])
          /\ served' = Append(served,
                 Answered(key, TRUE, r.allowed = 1, FALSE,
                          Respond(r.allowed = 1, r.remaining, FALSE)))
    /\ UNCHANGED <<engine, cfg, clock, memVars, workerVars, closeVars, rframe, eqres>>

\* A request with a key whose Allow fails before the store ran anything (the store
\* is unreachable, or the handler's 5 s deadline passed): Allow returns
\* false, 0, err and the handler answers.
MiddlewareRedisError(key) ==
    /\ engine = "redis"
    /\ key # ""
    /\ Len(served) < MaxCalls
    /\ Faults < MaxFaults
    /\ LET seen == Live(zset[key], ttl[key], clock)
       IN calls' = Record(calls, key,
                 [now |-> clock, allowed |-> FALSE, remaining |-> 0, err |-> TRUE,
                  pre |-> SortedSeq(seen), post |-> SortedSeq(seen)])
    /\ served' = Append(served,
           Answered(key, TRUE, FALSE, TRUE, Respond(FALSE, 0, TRUE)))
    /\ UNCHANGED <<engine, cfg, clock, memVars, workerVars, closeVars, redisVars,
                   eqres>>

\* ---------------------------------------------------- differential run
\* The same (identifier, now) call handed to both engines, one after the other.
EqAllow(id) ==
    /\ engine = "both"
    /\ SumLen(eqres, Ids) < MaxCalls
    /\ LET m == MemDecide(Fetch(store, id), clock, cfg)
           seen == Live(zset[id], ttl[id], clock)
           r == slidingWindowLua(seen, clock, cfg.Window, cfg.Limit)
       IN /\ store' = Put(store, id, m.ts)
          /\ zset' = [zset EXCEPT ![id] = r.members]
          /\ ttl' = [ttl EXCEPT ![id] = ExpiryAfter(r, IF seen = {} THEN NoTTL ELSE ttl[id],
                                                    clock, cfg.Window)]
          /\ eqres' = Record(eqres, id,
                 [now |-> clock,
                  mem |-> <<m.allowed, m.remaining>>,
                  redis |-> <<r.allowed = 1, r.remaining>>])
    /\ UNCHANGED <<engine, cfg, clock, mu, frame, workerVars, closeVars, rframe, calls,
                   served>>

\* ------------------------------------------------------- specifications
Configs == [Limit : 0..MaxLimit, Window : 1..MaxWindow]

InitWith(engines) ==
    /\ engine \in engines
    /\ cfg \in Configs
    /\ clock = 0
    /\ store = <<>>
    /\ mu = NoOne
    /\ frame = [g \in Callers |-> Idle]
    /\ wpc = "spawned"
    /\ wg = 0
    /\ stopCh = FALSE
    /\ cpc = "idle"
    /\ done = FALSE
    /\ ctxDone = FALSE
    /\ zset = [id \in Ids |-> {}]
    /\ ttl = [id \in Ids |-> NoTTL]
    /\ rframe = [p \in Procs |-> RIdle]
    /\ calls = [id \in Ids |-> <<>>]
    /\ eqres = [id \in Ids |-> <<>>]
    /\ served = <<>>

\* The memory engine serving Allow, with the reclamation worker running.
Init == InitWith({"memory"})

Next ==
    \/ Tick
    \/ \E g \in Callers, id \in Ids : AllowEnter(g, id)
    \/ \E g \in Callers : AllowReturn(g)
    \/ cleanupWorkerStart
    \/ cleanupWorkerRecvTick
    \/ cleanupWorkerPass

Spec == Init /\ [][Next]_vars

\* The memory engine serving one caller at a time, with the reclamation worker:
\* the sequences of Allow calls and reclamation passes.
Serial == {"g1"}

SweepNext ==
    \/ Tick
    \/ \E g \in Serial, id \in Ids : AllowEnter(g, id)
    \/ \E g \in Serial : AllowReturn(g)
    \/ cleanupWorkerStart
    \/ cleanupWorkerRecvTick
    \/ cleanupWorkerPass

SweepSpec == Init /\ [][SweepNext]_vars

\* The distributed engine serving Allow from several processes.
RedisInit == InitWith({"redis"})

RedisNext ==
    \/ Tick
    \/ \E p \in Procs, id \in Ids : RedisAllowBegin(p, id)
    \/ \E p \in Procs : RedisAllowReturn(p)
    \/ \E p \in Procs : RedisAllowFail(p)
    \/ \E p \in Procs : RedisAllowReplyLost(p)
    \/ \E id \in Ids : RedisExpire(id)

RedisSpec == RedisInit /\ [][RedisNext]_vars

\* The program of cmd/example: one of the two engines, chosen at start.
AnyInit == InitWith({"memory", "redis"})

AnySpec == AnyInit /\ [][Next \/ RedisNext]_vars

\* Lifecycle of the memory engine: construction, worker, Allow, Close.
LifeInit == InitWith({"memory"})

LifeNext ==
    \/ Tick
    \/ \E g \in Callers, id \in Ids : AllowEnter(g, id)
    \/ \E g \in Callers : AllowReturn(g)
    \/ cleanupWorkerStart
    \/ cleanupWorkerRecvTick
    \/ cleanupWorkerPass
    \/ cleanupWorkerStop
    \/ CloseBegin
    \/ CloseWaiter
    \/ CtxDone
    \/ CloseReturnNil
    \/ CloseReturnErr

LifeSpec == LifeInit /\ [][LifeNext]_vars

\* Lifecycle under fair scheduling, Close called once. The runtime schedules every
\* runnable goroutine (WF); a select whose stopCh case is ready again and again
\* takes it (SF: the choice among ready cases is random); sync.Mutex hands the
\* lock to a waiting goroutine (SF on the worker's pass). Nothing obliges the
\* clock, the callers, the ticker or the deadline to act.
MaxFairCalls == 2

FairAllowEnter(g, id) == Returned + InFlight < MaxFairCalls /\ AllowEnter(g, id)

CloseOnce == cpc = "idle" /\ CloseBegin

FairNext ==
    \/ Tick
    \/ \E g \in Callers, id \in Ids : FairAllowEnter(g, id)
    \/ \E g \in Callers : AllowReturn(g)
    \/ cleanupWorkerStart
    \/ cleanupWorkerRecvTick
    \/ cleanupWorkerPass
    \/ cleanupWorkerStop
    \/ CloseOnce
    \/ CloseWaiter
    \/ CtxDone
    \/ CloseReturnNil
    \/ CloseReturnErr

Fairness ==
    /\ \A g \in Callers : WF_vars(AllowReturn(g))
    /\ WF_vars(cleanupWorkerStart)
    /\ SF_vars(cleanupWorkerPass)
    /\ SF_vars(cleanupWorkerStop)
    /\ WF_vars(CloseWaiter)
    /\ WF_vars(CloseReturnNil)
    /\ WF_vars(CloseReturnErr)

FairSpec == LifeInit /\ [][FairNext]_vars /\ Fairness

\* Construction with any Config the type admits, then the engine in use.
AnyConfigs == [Limit : -1..MaxLimit, Window : -1..MaxWindow]

\* The zero value of Config.
ZeroConfig == [Limit |-> 0, Window |-> 0]

NewMemoryLimiter(c) ==
    /\ engine = "none"
    /\ engine' = "memory"
    /\ cfg' = c
    /\ store' = <<>>
    /\ stopCh' = FALSE
    /\ wpc' = "spawned"
    /\ UNCHANGED <<clock, mu, frame, wg, cpc, done, ctxDone, redisVars, histVars>>

NewRedisLimiter(c) ==
    /\ engine = "none"
    /\ engine' = "redis"
    /\ cfg' = c
    /\ UNCHANGED <<clock, memVars, workerVars, closeVars, redisVars, histVars>>

NewInit ==
    /\ engine = "none"
    /\ cfg = ZeroConfig
    /\ clock = 0
    /\ store = <<>>
    /\ mu = NoOne
    /\ frame = [g \in Callers |-> Idle]
    /\ wpc = "unborn"
    /\ wg = 0
    /\ stopCh = FALSE
    /\ cpc = "idle"
    /\ done = FALSE
    /\ ctxDone = FALSE
    /\ zset = [id \in Ids |-> {}]
    /\ ttl = [id \in Ids |-> NoTTL]
    /\ rframe = [p \in Procs |-> RIdle]
    /\ calls = [id \in Ids |-> <<>>]
    /\ eqres = [id \in Ids |-> <<>>]
    /\ served = <<>>

NewNext ==
    \/ \E c \in AnyConfigs : NewMemoryLimiter(c)
    \/ \E c \in AnyConfigs : NewRedisLimiter(c)
    \/ Tick
    \/ \E g \in Serial, id \in Ids : AllowEnter(g, id)
    \/ \E g \in Serial : AllowReturn(g)
    \/ cleanupWorkerStart
    \/ cleanupWorkerRecvTick
    \/ cleanupWorkerPass
    \/ \E p \in Procs, id \in Ids : RedisAllowBegin(p, id)
    \/ \E p \in Procs : RedisAllowReturn(p)
    \/ \E id \in Ids : RedisExpire(id)

NewSpec == NewInit /\ [][NewNext]_vars

\* The HTTP boundary: requests through Middleware to either engine.
MwNext ==
    \/ Tick
    \/ \E key \in Keys : MiddlewareBadRequest(key)
    \/ \E key \in Keys : MiddlewareMemory(key)
    \/ \E key \in Keys : MiddlewareRedis(key)
    \/ \E key \in Keys : MiddlewareRedisError(key)
    \/ \E id \in Ids : RedisExpire(id)

MwSpec == AnyInit /\ [][MwNext]_vars

\* Differential run of the two engines on one call sequence.
EqInit == InitWith({"both"})

EqNext ==
    \/ Tick
    \/ \E id \in Ids : EqAllow(id)
    \/ \E id \in Ids : RedisExpire(id)

EqSpec == EqInit /\ [][EqNext]_vars

\* ------------------------------------------------------------- claims
MinOf(a, b) == IF a < b THEN a ELSE b

Instants == 0..MaxTime

\* The returned calls for id that carry timestamp ts.
At(id, ts) == {i \in 1..Len(calls[id]) : calls[id][i].now = ts}

\* The number of returned calls for id that were allowed with lo < timestamp <= hi.
GrantedIn(id, lo, hi) ==
    Cardinality({i \in 1..Len(calls[id]) :
                    /\ calls[id][i].allowed
                    /\ lo < calls[id][i].now
                    /\ calls[id][i].now <= hi})

\* The quota left for id just before the first call that carries timestamp ts.
QuotaBefore(id, ts) == cfg.Limit - GrantedIn(id, ts - cfg.Window, ts - 1)

\* C1: window exactness, memory engine. For every identifier and every instant t,
\* the allowed calls with t < timestamp <= t + window number at most limit.
C1_WindowExactness ==
    \A id \in Ids : \A t \in (0 - MaxWindow)..MaxTime :
        GrantedIn(id, t, t + cfg.Window) <= cfg.Limit

\* C1 witness: more calls were allowed than limit, over more than one window, a
\* window is full, and a call was blocked.
C1_Witness ==
    \E id \in Ids :
        /\ cfg.Limit = 2
        /\ GrantedIn(id, -1, MaxTime) > cfg.Limit
        /\ \E t \in Instants : GrantedIn(id, t, t + cfg.Window) = cfg.Limit
        /\ \E i \in 1..Len(calls[id]) : ~calls[id][i].allowed

\* C2: concurrent exactness, memory engine. Of the K calls for one identifier that
\* carry one clock instant, exactly min(K, quota left before them) are allowed,
\* whatever the interleaving of the callers and the worker.
C2_ConcurrentExactness ==
    \A id \in Ids : \A ts \in Instants :
        GrantedIn(id, ts - 1, ts) = MinOf(Cardinality(At(id, ts)), QuotaBefore(id, ts))

\* C2 witness: with part of the quota used earlier in the window, more calls than
\* the quota left have returned at one instant while another caller holds the lock
\* at that same instant.
C2_Witness ==
    \E id \in Ids : \E g \in Callers :
        /\ frame[g].pc = "locked" /\ frame[g].id = id /\ frame[g].now = clock
        /\ QuotaBefore(id, clock) = 1
        /\ cfg.Limit = 2
        /\ Cardinality(At(id, clock)) = 2

\* C3: monotone remaining, memory engine. Starting with no in-window entries, the
\* j-th call at one instant returns (true, limit - j) for j <= limit and (false, 0)
\* after that.
C3_MonotoneRemaining ==
    \A id \in Ids : \A ts \in Instants :
        QuotaBefore(id, ts) = cfg.Limit =>
            \A i \in At(id, ts) :
                LET j == i - Min(At(id, ts)) + 1 IN
                /\ calls[id][i].allowed = (j <= cfg.Limit)
                /\ calls[id][i].remaining = IF j <= cfg.Limit THEN cfg.Limit - j ELSE 0

\* C3 witness: limit 2 and the run (true, 1), (true, 0), (false, 0) at one instant.
C3_Witness ==
    \E id \in Ids : \E ts \in Instants :
        /\ cfg.Limit = 2
        /\ QuotaBefore(id, ts) = cfg.Limit
        /\ Cardinality(At(id, ts)) = 3
        /\ LET i == Min(At(id, ts)) + 2 IN
           /\ ~calls[id][i].allowed
           /\ calls[id][i - 1].allowed /\ calls[id][i - 1].remaining = 0

\* C7: window-log invariant, memory engine. Every stored sequence is ascending and
\* no longer than limit, and an allowed call left its own now as the last element.
C7_WindowLog ==
    /\ \A id \in DOMAIN store :
          IsAscending(store[id]) /\ Len(store[id]) <= cfg.Limit
    /\ \A id \in Ids : \A i \in 1..Len(calls[id]) :
          calls[id][i].allowed =>
              /\ calls[id][i].post # <<>>
              /\ Last(calls[id][i].post) = calls[id][i].now

\* C7 witness: a full sequence of two different timestamps, left by an allowed call
\* that pruned an older entry, after a reclamation pass deleted another identifier.
C7_Witness ==
    \E id \in DOMAIN store :
        /\ cfg.Limit = 2
        /\ Len(store[id]) = 2
        /\ store[id][1] < store[id][2]
        /\ \E i \in 1..Len(calls[id]) :
              /\ calls[id][i].allowed
              /\ calls[id][i].post = store[id]
              /\ Len(calls[id][i].pre) = 2
        /\ \E other \in Ids \ DOMAIN store : calls[other] # <<>>

\* The calls for id from the i-th to the j-th all returned without error.
NoErrorIn(id, i, j) == \A k \in i..j : ~calls[id][k].err

\* Every timestamp of the sequence is at least window older than now.
AllExpired(s, now) == \A k \in 1..Len(s) : s[k] <= now - cfg.Window

\* The entries of the sequence that are not expired at now.
Valid(s, now) == SelectSeq(s, LAMBDA x : x > now - cfg.Window)

IsSuffix(s, t) == Len(s) <= Len(t) /\ s = SubSeq(t, Len(t) - Len(s) + 1, Len(t))

\* C4 as stated: once window has passed since the oldest recorded event of an
\* identifier, the next limit calls that return without error are all allowed.
C4_RecoveryAfterOldest ==
    \A id \in Ids : \A i \in 1..Len(calls[id]) :
        LET e == calls[id][i] IN
        (e.pre # <<>> /\ e.pre[1] <= e.now - cfg.Window) =>
            \A j \in i..MinOf(Len(calls[id]), i + cfg.Limit - 1) :
                NoErrorIn(id, i, j) => calls[id][j].allowed

\* C4 amended: once window has passed since the newest recorded event of an
\* identifier (every recorded timestamp is at least window old), the next limit
\* calls that return without error are all allowed.
C4_RecoveryAfterNewest ==
    \A id \in Ids : \A i \in 1..Len(calls[id]) :
        LET e == calls[id][i] IN
        (e.pre # <<>> /\ AllExpired(e.pre, e.now)) =>
            \A j \in i..MinOf(Len(calls[id]), i + cfg.Limit - 1) :
                NoErrorIn(id, i, j) => calls[id][j].allowed

\* C4 witness: a full quota of two recorded events has aged out and the next two
\* calls were allowed.
C4_Witness ==
    \E id \in Ids : \E i \in 1..Len(calls[id]) :
        /\ cfg.Limit = 2
        /\ Len(calls[id][i].pre) = 2
        /\ AllExpired(calls[id][i].pre, calls[id][i].now)
        /\ Len(calls[id]) = i + 1
        /\ calls[id][i].allowed /\ calls[id][i + 1].allowed

\* C5: fresh or idle identifier. With limit >= 1, a call that finds nothing recorded
\* for its identifier, or only timestamps at least window older than its now,
\* returns (true, limit - 1), on either engine.
C5_FreshOrIdle ==
    cfg.Limit >= 1 =>
        \A id \in Ids : \A i \in 1..Len(calls[id]) :
            LET e == calls[id][i] IN
            (~e.err /\ AllExpired(e.pre, e.now)) =>
                e.allowed /\ e.remaining = cfg.Limit - 1

\* C5 witness: one identifier was recorded, lost its entry (reclamation, expiry) and
\* was allowed again from nothing; another was allowed over expired entries.
C5_Witness ==
    /\ cfg.Limit >= 1
    /\ \E id \in Ids : \E i \in 2..Len(calls[id]) :
          /\ calls[id][1].allowed
          /\ calls[id][i].pre = <<>>
          /\ calls[id][i].allowed /\ calls[id][i].remaining = cfg.Limit - 1
    /\ \E id \in Ids : \E i \in 2..Len(calls[id]) :
          /\ calls[id][i].pre # <<>>
          /\ AllExpired(calls[id][i].pre, calls[id][i].now)
          /\ calls[id][i].allowed /\ calls[id][i].remaining = cfg.Limit - 1

\* What C6 says of one returned call that consumed nothing.
ConsumedNothing(e) ==
    /\ e.remaining = 0
    /\ IsSuffix(e.post, e.pre)
    /\ Valid(e.post, e.now) = Valid(e.pre, e.now)

\* C6 as stated: whenever Allow returns allowed = false, it returns remaining = 0
\* and a nil error, adds no timestamp and leaves the non-expired entries as they were.
C6_NotAllowedConsumesNothing ==
    \A id \in Ids : \A i \in 1..Len(calls[id]) :
        ~calls[id][i].allowed => (~calls[id][i].err /\ ConsumedNothing(calls[id][i]))

\* C6 amended: whenever Allow returns allowed = false with a nil error (a blocked
\* call), it returns remaining = 0, adds no timestamp and leaves the non-expired
\* entries as they were.
C6_BlockedConsumesNothing ==
    \A id \in Ids : \A i \in 1..Len(calls[id]) :
        (~calls[id][i].allowed /\ ~calls[id][i].err) => ConsumedNothing(calls[id][i])

\* C6 witness: a blocked call over a full window of two different timestamps.
C6_Witness ==
    \E id \in Ids : \E i \in 1..Len(calls[id]) :
        /\ ~calls[id][i].allowed /\ ~calls[id][i].err
        /\ Len(calls[id][i].pre) = 2
        /\ calls[id][i].pre[1] < calls[id][i].pre[2]
        /\ calls[id][i].post = calls[id][i].pre

\* C8: Close waits for the worker. Whenever Close has returned nil, the cleanup
\* worker has exited.
C8_CloseWaitsForWorker == cpc = "nil" => wpc = "exited"

\* C9: window exactness, distributed engine. For every identifier and every instant
\* t, the allowed calls with t < timestamp <= t + window number at most limit.
C9_RedisWindowExactness ==
    engine = "redis" =>
        \A id \in Ids : \A t \in (0 - MaxWindow)..MaxTime :
            GrantedIn(id, t, t + cfg.Window) <= cfg.Limit

\* C10: engine equivalence. On one sequence of (identifier, now) calls the two
\* engines return the same (allowed, remaining) for every call.
C10_EngineEquivalence ==
    \A id \in Ids : \A i \in 1..Len(eqres[id]) : eqres[id][i].mem = eqres[id][i].redis

\* C11 as stated: whenever the remote script call of the distributed engine fails,
\* Allow returns (false, 0) with a non-nil error, and the remote collection of the
\* key is the same after the failed call as before it.
C11_FailedCallChangesNothing ==
    engine = "redis" =>
        \A id \in Ids : \A i \in 1..Len(calls[id]) :
            LET e == calls[id][i] IN
            e.err => (~e.allowed /\ e.remaining = 0 /\ e.post = e.pre)

\* C12: worker termination and shutdown, memory engine, fair scheduling. Once Close
\* has closed stopCh the cleanup worker eventually exits, whatever Allow calls and
\* ticks are in flight; a waiting Close eventually returns; it returns nil unless
\* the deadline passes, and the context's error only after the deadline has passed.
C12_ShutdownTerminates ==
    /\ stopCh ~> (wpc = "exited")
    /\ (cpc = "wait") ~> (cpc \in {"nil", "err"})
    /\ (cpc = "wait") ~> (cpc = "nil" \/ ctxDone)
    /\ [](cpc = "err" => ctxDone)

\* C12 witness: Close returned nil after it had to wait for a worker that was in its
\* tick branch or started late, with an Allow call returned and the worker exited.
C12_Witness ==
    /\ cpc = "nil"
    /\ wpc = "exited"
    /\ wg = 0
    /\ Returned >= 1
    /\ \E id \in Ids : id \notin DOMAIN store /\ calls[id] # <<>>

\* C13 as stated: Close is idempotent-safe. A Close invoked after an earlier Close
\* does not fault: no run of the engine ends in the panic of a repeated Close.
C13_RepeatedCloseDoesNotFault == cpc # "panic"

\* C14 as stated: idempotent reclamation. After a reclamation pass, a second pass
\* with no Allow call in between, whenever its tick comes, leaves the store as the
\* first pass left it.
C14_SecondPassChangesNothing ==
    [][cleanupWorkerPass =>
          \A t \in clock'..MaxTime : Reclaim(store', t, cfg) = store']_vars

\* C14 amended: after a reclamation pass, a second pass with no Allow call and no
\* advance of the clock in between leaves the store as the first pass left it.
C14_SecondPassSameInstant ==
    [][cleanupWorkerPass => Reclaim(store', clock', cfg) = store']_vars

\* C14 witness: a pass has deleted one identifier and retained another with its
\* timestamps, and the worker is back in its select.
C14_Witness ==
    /\ wpc = "select"
    /\ mu = NoOne
    /\ \E id \in Ids \ DOMAIN store : calls[id] # <<>>
    /\ \E id \in DOMAIN store : store[id] # <<>> /\ Last(store[id]) >= clock - cfg.Window

\* A zero or negative window, or a negative limit.
Misconfigured(c) == c.Window <= 0 \/ c.Limit < 0

\* C15 as stated: misconfiguration is rejected at construction. A construction with
\* a zero or negative window, or a negative limit, yields no limiter: no engine is
\* in use and no background task was started.
C15_MisconfigurationRejected ==
    Misconfigured(cfg) => (engine = "none" /\ wpc = "unborn")

\* The sequence Allow would have stored for id after its first i returned calls had
\* no reclamation pass ever run: the same calls applied to a store nothing deletes.
RECURSIVE Unreclaimed(_, _)
Unreclaimed(id, i) ==
    IF i = 0 THEN <<>>
    ELSE MemDecide(Unreclaimed(id, i - 1), calls[id][i].now, cfg).ts

\* C16: reclamation is transparent to admission, memory engine. The store holds for
\* every identifier exactly the entries a later Allow would count that it would hold
\* had no pass run, and every returned (allowed, remaining) equals the result of the
\* same call sequence with no reclamation pass.
C16_ReclamationTransparent ==
    /\ \A id \in Ids :
          Valid(Fetch(store, id), clock) = Valid(Unreclaimed(id, Len(calls[id])), clock)
    /\ \A id \in Ids : \A i \in 1..Len(calls[id]) :
          LET r == MemDecide(Unreclaimed(id, i - 1), calls[id][i].now, cfg) IN
          /\ calls[id][i].allowed = r.allowed
          /\ calls[id][i].remaining = r.remaining

\* C16 witness: a pass deleted an identifier that had been allowed, a later call for
\* it started from nothing, and another identifier kept a countable entry through the
\* passes and was then blocked.
C16_Witness ==
    /\ \E id \in Ids : \E i \in 2..Len(calls[id]) :
          calls[id][1].allowed /\ calls[id][i].pre = <<>> /\ calls[id][i].allowed
    /\ \E id \in Ids : \E i \in 2..Len(calls[id]) :
          calls[id][i].pre # <<>> /\ ~calls[id][i].allowed

\* The boundaries now - window can take.
Boundaries == (0 - MaxWindow)..MaxTime

\* The entries an Allow call kept of the sequence it found: what it stored, less
\* the timestamp it appended when it allowed.
KeptBy(e) == IF e.allowed THEN SubSeq(e.post, 1, Len(e.post) - 1) ELSE e.post

\* C17: the prune step is exact, memory engine. Every returned call kept of the
\* ascending sequence it found exactly the timestamps > now - window, in order, and
\* on every stored sequence the scan does so for every boundary.
C17_PruneExact ==
    /\ \A id \in Ids : \A i \in 1..Len(calls[id]) :
          /\ IsAscending(calls[id][i].pre)
          /\ KeptBy(calls[id][i]) = Valid(calls[id][i].pre, calls[id][i].now)
    /\ \A id \in DOMAIN store : \A b \in Boundaries :
          Slide(store[id], b) = SelectSeq(store[id], LAMBDA ts : ts > b)

\* C17 witness: calls for one identifier have found an empty sequence, one with
\* nothing expired, and a full mixed one whose first timestamp was exactly
\* now - window; that one was dropped and the call was allowed.
C17_Witness ==
    \E id \in Ids :
        /\ cfg.Limit = 2
        /\ \E i \in 1..Len(calls[id]) : calls[id][i].pre = <<>>
        /\ \E i \in 1..Len(calls[id]) :
              LET e == calls[id][i] IN
              e.pre # <<>> /\ Valid(e.pre, e.now) = e.pre
        /\ \E i \in 1..Len(calls[id]) :
              LET e == calls[id][i] IN
              /\ Len(e.pre) = 2
              /\ e.pre[1] = e.now - cfg.Window
              /\ e.pre[2] > e.now - cfg.Window
              /\ e.allowed
              /\ e.post = <<e.pre[2], e.now>>

\* The members of a sequence.
Range(s) == {s[k] : k \in 1..Len(s)}

\* C18 as stated: remote expiry is transparent, distributed engine. Between two
\* calls for an identifier only expiry changes its key; the later call still finds
\* every member the earlier call left whose score is > now - window, and it is
\* allowed only if the script allows it on the members the earlier call left.
C18_ExpiryTransparent ==
    engine = "redis" =>
        \A id \in Ids : \A i \in 2..Len(calls[id]) :
            NoErrorIn(id, 1, i) =>
                LET e == calls[id][i]
                    left == Range(calls[id][i - 1].post)
                    r == slidingWindowLua(left, e.now, cfg.Window, cfg.Limit)
                IN /\ \A m \in left : m > e.now - cfg.Window => m \in Range(e.pre)
                   /\ e.allowed => r.allowed = 1

\* C19: Middleware gating. For every answered request, next ran iff the key was
\* non-empty and Allow returned allowed = true or an error; an empty key got 400
\* without Allow being called; a blocked result got 429 without next.
C19_MiddlewareGating ==
    \A i \in 1..Len(served) :
        LET s == served[i] IN
        /\ s.next <=> (s.key # "" /\ (s.allowed \/ s.err))
        /\ s.called <=> (s.key # "")
        /\ s.key = "" => (s.status = 400 /\ ~s.next)
        /\ (s.called /\ ~s.allowed /\ ~s.err) => (s.status = 429 /\ ~s.next)

\* C19 witness: the four outcomes in one run: an empty key answered 400, a request
\* passed on because it was allowed, one answered 429, and one passed on after Allow
\* failed.
C19_Witness ==
    /\ \E i \in 1..Len(served) : served[i].key = "" /\ served[i].status = 400
    /\ \E i \in 1..Len(served) : served[i].allowed /\ served[i].next
    /\ \E i \in 1..Len(served) :
          served[i].called /\ ~served[i].allowed /\ ~served[i].err /\ served[i].status = 429
    /\ \E i \in 1..Len(served) : served[i].err /\ served[i].next
    /\ Returned = 3

\* What is stored for an identifier, in either engine.
StoredFor(m, z, t, id) ==
    [present |-> id \in DOMAIN m, timestamps |-> Fetch(m, id),
     members |-> z[id], expiry |-> t[id]]

\* A step in which an Allow call for one identifier returns leaves what is stored
\* for every other identifier, and its history, as they were.
IsolatedReturn ==
    \A a \in Ids :
        calls'[a] # calls[a] =>
            \A b \in Ids \ {a} :
                /\ StoredFor(store', zset', ttl', b) = StoredFor(store, zset, ttl, b)
                /\ calls'[b] = calls[b]

\* Every returned call for an identifier found what the identifier's previous call
\* left, or nothing (after reclamation or expiry), and a call that returned without
\* error returned the engine's decision on what it found at its own now.
OwnHistoryDecides ==
    \A id \in Ids : \A i \in 1..Len(calls[id]) :
        LET e == calls[id][i]
            left == IF i = 1 THEN <<>> ELSE calls[id][i - 1].post
            m == MemDecide(e.pre, e.now, cfg)
            r == slidingWindowLua(Range(e.pre), e.now, cfg.Window, cfg.Limit)
        IN /\ e.pre \in {left, <<>>}
           /\ (~e.err /\ engine = "memory") =>
                  (e.allowed = m.allowed /\ e.remaining = m.remaining /\ e.post = m.ts)
           /\ (~e.err /\ engine = "redis") =>
                  /\ e.allowed = (r.allowed = 1)
                  /\ e.remaining = r.remaining
                  /\ e.post = SortedSeq(r.members)

\* C20: per-identifier isolation, either engine. An Allow call for one identifier
\* leaves the stored sequence or remote key of every other identifier unchanged, and
\* the result of every call depends only on what the earlier calls for its own
\* identifier left and on the clock.
C20_PerIdentifierIsolation == []OwnHistoryDecides /\ [][IsolatedReturn]_vars

\* C20 witness: both identifiers hold timestamps at once, each as its own last call
\* left them; one identifier's second call found exactly what its first had left and
\* was blocked, the other's was allowed.
C20_Witness ==
    \E a \in Ids : \E b \in Ids \ {a} :
        /\ Len(calls[a]) = 2 /\ Len(calls[b]) = 2
        /\ calls[a][2].pre = calls[a][1].post
        /\ ~calls[a][2].allowed /\ ~calls[a][2].err
        /\ calls[b][2].pre = calls[b][1].post
        /\ calls[b][2].allowed
        /\ calls[a][2].post # <<>>
        /\ StoredFor(store, zset, ttl, a).timestamps = calls[a][2].post
        /\ StoredFor(store, zset, ttl, b).timestamps = calls[b][2].post

====
